---------------------------- MODULE Spec2Model ----------------------------
(***************************************************************************)
(* A model of two reconcile loops of the operator: the LogCollector        *)
(* controller (pkg/controller/logcollector) and the APIServer controller   *)
(* (pkg/controller/apiserver), with the work queue that drives them, the   *)
(* status manager calls they make, the Installation finalizer the          *)
(* APIServer controller maintains and the resources their component        *)
(* handler applies.                                                        *)
(*                                                                         *)
(* A reconcile is one action.  It takes a request from the work queue,     *)
(* reads the cluster (the input record "in": what every read of that       *)
(* reconcile returns) and runs the handler to its return.  The handler     *)
(* returns at the first call that fails, so an input names at most one     *)
(* failing call ("fault"): calls after it are never made.                  *)
(*                                                                         *)
(* The two controllers share no state.  A behaviour observes one of them   *)
(* (ctl, chosen in Init and never changed).                                *)
(***************************************************************************)
EXTENDS Naturals, Sequences, FiniteSets

VARIABLES
    ctl,            \* the controller observed: "logcollector" or "apiserver"
    queue,          \* the controller's work queue: the set of pending request names
    crExists,       \* the controller's primary CR (LogCollector / APIServer) exists
    crState,        \* the CR's Status.State: "" or "Ready"
    available,      \* what the status manager's IsAvailable() answers
    run,            \* the last Reconcile call: its request, its reads and its outcome
    finalizer,      \* the APIServer finalizer is on the Installation
    deployRunning,  \* the calico-apiserver Deployment in calico-system has running pods
    tracked,        \* the managed resource followed: the component that renders it
    live,           \* that resource in the cluster: "absent", "desired" or "drifted"
    ignore,         \* it carries unsupported.operator.tigera.io/ignore: "true"
    fdIn, fdOut,    \* fillDefaults: the instance given, the instance and list returned
    ccIn, ccOut,    \* canCleanupLegacyNamespace: the reads, the answer
    apIn, apOut,    \* render.APIServer: the configuration, the Deployment rendered
    tyIn, tyOut     \* typhaComponent.Objects: the configuration, the list returned

vars == <<ctl, queue, crExists, crState, available, run, finalizer, deployRunning,
          tracked, live, ignore, fdIn, fdOut, ccIn, ccOut,
                   apIn, apOut, tyIn, tyOut>>

ctlVars == <<ctl, queue, crExists, crState, available, run, finalizer, deployRunning,
             tracked, live, ignore>>

-----------------------------------------------------------------------------
(* Bounds *)

\* The longest Syslog.LogTypes list given to fillDefaults.
MaxLogTypes == 2

\* The largest Status.AvailableReplicas of a Deployment.
MaxReplicas == 2

\* The largest Installation.ControlPlaneReplicas given to the API server render.
MaxControlPlaneReplicas == 3

-----------------------------------------------------------------------------
(* The LogCollector instance (operatorv1.LogCollector.Spec) *)

\* operatorv1.SyslogLogType values.
SyslogLogTypes == {"Audit", "DNS", "Flows", "IDSEvents"}

\* A nil *CollectProcessPathOption is "nil".
CollectProcessPaths == {"nil", "Enabled", "Disabled"}

\* An unset EncryptionOption is "".
Encryptions == {"", "None", "TLS"}

\* Spec.AdditionalStores is nil when stores = FALSE; Spec.AdditionalStores.Syslog
\* is nil when syslog = FALSE; a nil or empty LogTypes is << >>.
Instance(cpp, stores, s3, splunk, syslog, logTypes, encryption, mtNamespace) ==
    [CollectProcessPath |-> cpp, stores |-> stores, S3 |-> s3, Splunk |-> splunk,
     Syslog |-> syslog, LogTypes |-> logTypes, Encryption |-> encryption,
     MultiTenantManagementClusterNamespace |-> mtNamespace]

\* fillDefaults as it would be with the default LogTypes set to every log type and
\* the Encryption default left out of the returned names.
fillDefaultsEveryType(instance) ==
    LET m1 == IF instance.CollectProcessPath = "nil" THEN <<"CollectProcessPath">> ELSE << >>
        i1 == IF instance.CollectProcessPath = "nil"
              THEN [instance EXCEPT !.CollectProcessPath = "Enabled"] ELSE instance
        hasSyslog == instance.stores /\ instance.Syslog
        noTypes == hasSyslog /\ Len(instance.LogTypes) = 0
        m2 == IF noTypes THEN Append(m1, "AdditionalStores.Syslog.LogTypes") ELSE m1
        i2 == IF noTypes THEN [i1 EXCEPT !.LogTypes = <<"Audit", "DNS", "Flows", "IDSEvents">>]
              ELSE i1
        noEnc == hasSyslog /\ instance.Encryption = ""
        i3 == IF noEnc THEN [i2 EXCEPT !.Encryption = "None"] ELSE i2
    IN  [instance |-> i3, modifiedFields |-> m2]

\* fillDefaults: the instance after defaulting and the names of the fields set.
fillDefaults(instance) ==
    LET m1 == IF instance.CollectProcessPath = "nil" THEN <<"CollectProcessPath">> ELSE << >>
        i1 == IF instance.CollectProcessPath = "nil"
              THEN [instance EXCEPT !.CollectProcessPath = "Enabled"] ELSE instance
        hasSyslog == instance.stores /\ instance.Syslog
        noTypes == hasSyslog /\ Len(instance.LogTypes) = 0
        m2 == IF noTypes THEN Append(m1, "AdditionalStores.Syslog.LogTypes") ELSE m1
        i2 == IF noTypes THEN [i1 EXCEPT !.LogTypes = <<"Audit", "DNS", "Flows">>] ELSE i1
        noEnc == hasSyslog /\ instance.Encryption = ""
        m3 == IF noEnc THEN Append(m2, "AdditionalStores.Syslog.Encryption") ELSE m2
        i3 == IF noEnc THEN [i2 EXCEPT !.Encryption = "None"] ELSE i2
    IN  [instance |-> i3, modifiedFields |-> m3]

\* Sequences over S of length at most n.
SeqUpTo(S, n) == UNION {[1..k -> S] : k \in 0..n}

\* An instance the API can hold: no store without AdditionalStores, no Syslog
\* field without a Syslog store.
WellFormed(i) ==
    /\ ~i.stores => ~i.S3 /\ ~i.Splunk /\ ~i.Syslog
    /\ ~i.Syslog => i.LogTypes = << >> /\ i.Encryption = ""

FillInstances ==
    {i \in {Instance(cpp, st, s3, FALSE, sy, lt, enc, "") :
                cpp \in CollectProcessPaths, st \in BOOLEAN, s3 \in BOOLEAN, sy \in BOOLEAN,
                lt \in SeqUpTo(SyslogLogTypes, MaxLogTypes), enc \in Encryptions} :
        WellFormed(i)}

NoInstance == Instance("nil", FALSE, FALSE, FALSE, FALSE, << >>, "", "")

NoFill == [instance |-> NoInstance, modifiedFields |-> << >>, done |-> FALSE]

FillInit ==
    /\ fdIn \in FillInstances
    /\ fdOut = NoFill

\* A call of fillDefaults.
Fill ==
    /\ ~fdOut.done
    /\ fdOut' = [instance |-> fillDefaults(fdIn).instance,
                  modifiedFields |-> fillDefaults(fdIn).modifiedFields, done |-> TRUE]
    /\ UNCHANGED <<fdIn, ccIn, ccOut, apIn, apOut, tyIn, tyOut>>
    /\ UNCHANGED ctlVars

-----------------------------------------------------------------------------
(* canCleanupLegacyNamespace *)

Variants == {"Calico", "TigeraSecureEnterprise"}

\* What client.Get of a Deployment returns: the error ("ok" for none) and, when
\* the object was read, its Status.AvailableReplicas.  A failed Get leaves the
\* Deployment struct zero.
DeploymentReads ==
    {[get |-> "notfound", AvailableReplicas |-> 0], [get |-> "err", AvailableReplicas |-> 0]}
    \cup {[get |-> "ok", AvailableReplicas |-> n] : n \in 0..MaxReplicas}

\* What client.Get of the 'apiserver' TigeraStatus returns, with ts.Available().
TigeraStatusReads ==
    {[get |-> "notfound", Available |-> FALSE], [get |-> "err", Available |-> FALSE],
     [get |-> "ok", Available |-> FALSE], [get |-> "ok", Available |-> TRUE]}

\* The cluster canCleanupLegacyNamespace reads: the calico-apiserver Deployment
\* of each namespace, utils.IsAPIServerReady and the TigeraStatus.
CleanupReads ==
    [variant : Variants,
     deploy : [{"calico-system", "tigera-system", "calico-apiserver"} -> DeploymentReads],
     apiServerReady : BOOLEAN,
     ts : TigeraStatusReads]

\* canCleanupLegacyNamespace as it would be with the old namespace always
\* "tigera-system" and a failed read of the old Deployment taken for its absence.
canCleanupTigeraSystemOnly(c) ==
    LET newDeploy == c.deploy["calico-system"]
        oldDeploy == c.deploy["tigera-system"]
    IN  /\ newDeploy.get = "ok" /\ newDeploy.AvailableReplicas > 0
        /\ oldDeploy.AvailableReplicas = 0
        /\ c.apiServerReady
        /\ c.ts.get = "ok" /\ c.ts.Available

canCleanupLegacyNamespace(c) ==
    LET newNamespace == "calico-system"
        oldNamespace == IF c.variant = "Calico" THEN "calico-apiserver" ELSE "tigera-system"
        newDeploy == c.deploy[newNamespace]
        oldDeploy == c.deploy[oldNamespace]
    IN  IF newDeploy.get # "ok" THEN FALSE
        ELSE IF newDeploy.AvailableReplicas = 0 THEN FALSE
        ELSE IF oldDeploy.get # "ok" /\ oldDeploy.get # "notfound" THEN FALSE
        ELSE IF oldDeploy.AvailableReplicas > 0 THEN FALSE
        ELSE IF ~c.apiServerReady THEN FALSE
        ELSE IF c.ts.get # "ok" THEN FALSE
        ELSE IF ~c.ts.Available THEN FALSE
        ELSE TRUE

NoCleanup == [done |-> FALSE, can |-> FALSE]

CleanupInit ==
    /\ ccIn \in CleanupReads
    /\ ccOut = NoCleanup

\* A call of canCleanupLegacyNamespace.
Cleanup ==
    /\ ~ccOut.done
    /\ ccOut' = [done |-> TRUE, can |-> canCleanupLegacyNamespace(ccIn)]
    /\ UNCHANGED <<fdIn, fdOut, ccIn, apIn, apOut, tyIn, tyOut>>
    /\ UNCHANGED ctlVars

-----------------------------------------------------------------------------
(* render.APIServer: the calico-apiserver Deployment in calico-system *)

\* podaffinity.NewPodAntiAffinity("calico-apiserver", "calico-system").
APIServerAntiAffinity == [name |-> "calico-apiserver", namespace |-> "calico-system"]

\* A nil *corev1.Affinity.
NilAffinity == [name |-> "", namespace |-> ""]

\* The fields of render.APIServerConfiguration the Deployment's Affinity and
\* Strategy are rendered from.
APIServerConfiguration(variant, replicas, forceHostNetwork) ==
    [Variant |-> variant, ControlPlaneReplicas |-> replicas,
     ForceHostNetwork |-> forceHostNetwork]

APIServerConfigurations ==
    {APIServerConfiguration(v, n, h) :
        v \in Variants, n \in 1..MaxControlPlaneReplicas, h \in BOOLEAN}

\* The Deployment's Affinity as it would be with anti-affinity from one replica on.
apiServerAffinityFromOne(cfg) ==
    IF cfg.ControlPlaneReplicas >= 1 THEN APIServerAntiAffinity ELSE NilAffinity

\* Spec.Template.Spec.Affinity of the rendered Deployment.
apiServerAffinity(cfg) ==
    IF cfg.ControlPlaneReplicas > 1 THEN APIServerAntiAffinity ELSE NilAffinity

\* The Deployment's strategy as it would be if it were always RollingUpdate.
apiServerStrategyRolling(cfg) == "RollingUpdate"

\* Spec.Strategy.Type of the rendered Deployment.
apiServerStrategy(cfg) ==
    IF cfg.ForceHostNetwork THEN "Recreate" ELSE "RollingUpdate"

\* The rendered Deployment.
apiServerDeployment(cfg) ==
    [Name |-> "calico-apiserver", Namespace |-> "calico-system",
     Replicas |-> cfg.ControlPlaneReplicas,
     Affinity |-> apiServerAffinity(cfg), Strategy |-> apiServerStrategy(cfg)]

\* The configuration the render tests start from (BeforeEach): two replicas,
\* not host networked.
TestConfiguration(variant) == APIServerConfiguration(variant, 2, FALSE)

\* The render tests of the Affinity, in the Enterprise and in the Calico suite:
\* the configuration each renders and the Affinity it expects.
AffinityTests ==
    {[cfg |-> [TestConfiguration(v) EXCEPT !.ControlPlaneReplicas = 1],
      Affinity |-> NilAffinity] : v \in Variants}
    \cup {[cfg |-> [TestConfiguration(v) EXCEPT !.ControlPlaneReplicas = 2],
           Affinity |-> APIServerAntiAffinity] : v \in Variants}

\* The render tests of the Strategy, in the Enterprise and in the Calico suite:
\* the configuration each renders and the Strategy.Type it expects.
StrategyTests ==
    {[cfg |-> [TestConfiguration(v) EXCEPT !.ForceHostNetwork = TRUE],
      Strategy |-> "Recreate"] : v \in Variants}
    \cup {[cfg |-> TestConfiguration(v), Strategy |-> "RollingUpdate"] : v \in Variants}

NoAPIServerConfiguration == APIServerConfiguration("Calico", 1, FALSE)

NoDeployment ==
    [Name |-> "", Namespace |-> "", Replicas |-> 0, Affinity |-> NilAffinity,
     Strategy |-> "", done |-> FALSE]

APIServerRenderInit ==
    /\ apIn \in APIServerConfigurations
    /\ apOut = NoDeployment

\* A render of the API server component: the Deployment among its objects.
RenderAPIServer ==
    /\ ~apOut.done
    /\ apOut' = [Name |-> apiServerDeployment(apIn).Name,
                  Namespace |-> apiServerDeployment(apIn).Namespace,
                  Replicas |-> apiServerDeployment(apIn).Replicas,
                  Affinity |-> apiServerDeployment(apIn).Affinity,
                  Strategy |-> apiServerDeployment(apIn).Strategy,
                  done |-> TRUE]
    /\ UNCHANGED <<fdIn, fdOut, ccIn, ccOut, apIn, tyIn, tyOut>>
    /\ UNCHANGED ctlVars

-----------------------------------------------------------------------------
(* typhaComponent.Objects *)

\* The fields of TyphaConfiguration the object list depends on:
\* Installation.TyphaMetricsPort != nil and NonClusterHost != nil.
TyphaConfigurations == [TyphaMetricsPort : BOOLEAN, NonClusterHost : BOOLEAN]

Object(kind, name) == [Kind |-> kind, Name |-> name]

TyphaNonClusterHostSuffix == "-noncluster-host"

\* typhaServices: the calico-typha Service and, with a NonClusterHost, its copy.
typhaServices(cfg) ==
    IF cfg.NonClusterHost
    THEN <<Object("Service", "calico-typha"),
           Object("Service", "calico-typha" \o TyphaNonClusterHostSuffix)>>
    ELSE <<Object("Service", "calico-typha")>>

\* typhaDeployment: the calico-typha Deployment (common.TyphaDeploymentName) and,
\* with a NonClusterHost, its copy.
typhaDeployment(cfg) ==
    IF cfg.NonClusterHost
    THEN <<Object("Deployment", "calico-typha"),
           Object("Deployment", "calico-typha" \o TyphaNonClusterHostSuffix)>>
    ELSE <<Object("Deployment", "calico-typha")>>

typhaPrometheusService == Object("Service", "calico-typha-metrics")

\* Objects(): the objects to create, in the order they are appended.
typhaObjects(cfg) ==
    <<Object("ServiceAccount", "calico-typha"),
      Object("ClusterRole", "calico-typha"),
      Object("ClusterRoleBinding", "calico-typha"),
      Object("PodDisruptionBudget", "calico-typha")>>
    \o typhaServices(cfg)
    \o typhaDeployment(cfg)
    \o (IF cfg.TyphaMetricsPort THEN <<typhaPrometheusService>> ELSE << >>)

NoTyphaConfiguration == [TyphaMetricsPort |-> FALSE, NonClusterHost |-> FALSE]

NoObjects == [objs |-> << >>, done |-> FALSE]

TyphaInit ==
    /\ tyIn \in TyphaConfigurations
    /\ tyOut = NoObjects

\* A call of the Typha component's Objects().
TyphaObjects ==
    /\ ~tyOut.done
    /\ tyOut' = [objs |-> typhaObjects(tyIn), done |-> TRUE]
    /\ UNCHANGED <<fdIn, fdOut, ccIn, ccOut, apIn, apOut, tyIn>>
    /\ UNCHANGED ctlVars

-----------------------------------------------------------------------------
(* What a Reconcile call returns and does *)

\* utils.DefaultTSEEInstanceKey.Name ("tigera-secure" is the name of the
\* LogCollector and of the APIServer instance served).
InstanceRequest == "tigera-secure"

\* The request the periodic reconcile enqueues (utils.AddPeriodicReconcile).
PeriodicRequest == "periodic-reconcile"

\* The outcome of a Reconcile call:
\*   stop          the step at which it returned
\*   degraded      the reason of its status.SetDegraded call, "" when it made none
\*   cleared       it called status.ClearDegraded
\*   err           it returned a non-nil error
\*   requeueAfter  it returned Result{RequeueAfter: utils.StandardRetry}
\*   applied       the components CreateOrUpdateOrDelete succeeded for, in order
\*   ready         it wrote Status.State = Ready
\*   patched       it patched the defaults into the CR
\*   finalizerCall its maintainFinalizer call: "none", "nil" or "instance"
Return(stop, reason, err, requeueAfter) ==
    [stop |-> stop, degraded |-> reason, cleared |-> FALSE, err |-> err,
     requeueAfter |-> requeueAfter, applied |-> << >>, ready |-> FALSE,
     patched |-> FALSE, finalizerCall |-> "none"]

\* The loop as it would be with the error of CreateOrUpdateOrDelete dropped:
\* every component is gone through and no failure is returned.
ApplyLoopIgnoringErrors(components, fault) ==
    [applied |-> SelectSeq(components, LAMBDA c : c # fault), failed |-> FALSE]

\* The loop as it would be with a break in place of the return: it stops at the
\* component that fails and the handler goes on.
ApplyLoopBreaking(components, fault) ==
    LET failing == {i \in 1..Len(components) : components[i] = fault}
        n == IF failing = {} THEN Len(components)
             ELSE (CHOOSE i \in failing : \A j \in failing : i <= j) - 1
    IN  [applied |-> SubSeq(components, 1, n), failed |-> FALSE]

\* The loop over the components: CreateOrUpdateOrDelete for each in turn, stopping
\* at the first that fails.  fault names the component whose call fails, if any.
RECURSIVE ApplyLoop(_, _)
ApplyLoop(components, fault) ==
    IF components = << >> THEN [applied |-> << >>, failed |-> FALSE]
    ELSE IF fault = Head(components) THEN [applied |-> << >>, failed |-> TRUE]
    ELSE LET rest == ApplyLoop(Tail(components), fault)
         IN  [applied |-> <<Head(components)>> \o rest.applied, failed |-> rest.failed]

\* The end as it would be without the requeue while the status manager reports
\* not available.
FinishNoRequeue(applied, patched, finalizerCall, isAvailable, updateFails) ==
    LET base == [Return("notAvailable", "", FALSE, FALSE) EXCEPT
                    !.cleared = TRUE, !.applied = applied, !.patched = patched,
                    !.finalizerCall = finalizerCall]
    IN  IF ~isAvailable THEN base
        ELSE IF updateFails THEN [base EXCEPT !.stop = "readyUpdate", !.err = TRUE]
        ELSE [base EXCEPT !.stop = "done", !.ready = TRUE]

\* The end as it would be without the IsAvailable check.
FinishAlwaysReady(applied, patched, finalizerCall, isAvailable, updateFails) ==
    LET base == [Return("done", "", FALSE, FALSE) EXCEPT
                    !.cleared = TRUE, !.applied = applied, !.patched = patched,
                    !.finalizerCall = finalizerCall]
    IN  IF updateFails THEN [base EXCEPT !.stop = "readyUpdate", !.err = TRUE]
        ELSE [base EXCEPT !.ready = TRUE]

\* The end of both Reconcile functions, from ClearDegraded on.
Finish(applied, patched, finalizerCall, isAvailable, updateFails) ==
    LET base == [Return("notAvailable", "", FALSE, TRUE) EXCEPT
                    !.cleared = TRUE, !.applied = applied, !.patched = patched,
                    !.finalizerCall = finalizerCall]
    IN  IF ~isAvailable THEN base
        ELSE IF updateFails
             THEN [base EXCEPT !.stop = "readyUpdate", !.err = TRUE, !.requeueAfter = FALSE]
        ELSE [base EXCEPT !.stop = "done", !.requeueAfter = FALSE, !.ready = TRUE]

-----------------------------------------------------------------------------
(* The LogCollector controller *)

\* logcollector.ResourceName: the name of the controller's TigeraStatus.
LCResourceName == "log-collector"

LCRequests == {LCResourceName, InstanceRequest}

\* The client calls and readiness checks of ReconcileLogCollector.Reconcile that
\* can make it return, in the order the code makes them.
LCFaults ==
    <<"getLC", "tsGet", "conditionsUpdate", "patch", "apiServerNotReady",
      "tierWatchNotReady", "tierNotFound", "tierGet", "licenseAPINotReady",
      "licenseNotFound", "licenseGet", "installationNotFound", "installationGet",
      "pullSecrets", "managementClusterConnection", "managementCluster",
      "certificateManager", "fluentdKeyPair", "prometheusCertGet", "prometheusCertNil",
      "tenant", "linseedCertGet", "linseedCertNil", "trustedBundle",
      "s3Get", "s3Nil", "splunkGet", "splunkNil", "syslogCert", "filters",
      "esClusterConfigNotFound", "esClusterConfigGet", "eksConfig", "eksKeyPair",
      "packetCapture", "nonClusterHost", "nonClusterHostEndpoint", "imageSet",
      "setup", "fluentd", "certificates", "hasWindowsNodes", "windowsImageSet",
      "fluentd-windows", "readyUpdate">>

Range(seq) == {seq[i] : i \in 1..Len(seq)}

\* The place of x in seq.
Index(seq, x) == CHOOSE i \in 1..Len(seq) : seq[i] = x

\* The list as it would be with fluentd put before the setup component.
LCComponentsFluentdFirst == <<"fluentd", "setup", "certificates">>

\* The components of the loop at lines 637-653.
LCComponents == <<"setup", "fluentd", "certificates">>

\* The check as it would be if it looked at the S3 store only.
ExportLogsNotLicensedS3(exportLogs, instance) ==
    ~exportLogs /\ instance.stores /\ instance.S3

\* Lines 450-451: the license does not activate export-logs and the instance sets
\* Spec.AdditionalStores.
ExportLogsNotLicensed(exportLogs, instance) == ~exportLogs /\ instance.stores

\* The check as it would be without the managed-cluster condition.
IDSEventsAnywhere(managedCluster, instance) ==
    /\ instance.stores /\ instance.Syslog
    /\ \E i \in 1..Len(instance.LogTypes) : instance.LogTypes[i] = "IDSEvents"

\* Lines 501-521: the instance has a Syslog store whose LogTypes include IDSEvents
\* and a ManagementClusterConnection CR is present.
IDSEventsOnManagedCluster(managedCluster, instance) ==
    /\ instance.stores /\ instance.Syslog /\ managedCluster
    /\ \E i \in 1..Len(instance.LogTypes) : instance.LogTypes[i] = "IDSEvents"

\* ReconcileLogCollector.Reconcile, for request req, with the CR present or not,
\* IsAvailable() answering isAvailable, and the reads of in.
LCReconcile(req, exists, isAvailable, in) ==
    LET f == in.fault
        defaults == fillDefaults(in.instance)
        instance == defaults.instance
        patched == Len(defaults.modifiedFields) > 0
        managedCluster == in.managementClusterConnection
        multiTenantManagement == in.multiTenant /\ in.managementCluster
        mtNamespace == instance.MultiTenantManagementClusterNamespace
        loop == ApplyLoop(LCComponents, f)
        Patched(o) == [o EXCEPT !.patched = patched]
        Applied(o, a) == [o EXCEPT !.patched = patched, !.applied = a]
    IN
    IF ~exists THEN Return("crNotFound", "", FALSE, FALSE)
    ELSE IF f = "getLC" THEN Return(f, "ResourceReadError", TRUE, FALSE)
    ELSE IF req = LCResourceName /\ f = "tsGet" THEN Return(f, "", TRUE, FALSE)
    ELSE IF req = LCResourceName /\ f = "conditionsUpdate" THEN Return(f, "", TRUE, FALSE)
    ELSE IF patched /\ f = "patch" THEN Return(f, "ResourcePatchError", TRUE, FALSE)
    ELSE Patched(
    IF f = "apiServerNotReady" THEN Return(f, "ResourceNotReady", FALSE, FALSE)
    ELSE IF f = "tierWatchNotReady" THEN Return(f, "ResourceNotReady", FALSE, TRUE)
    ELSE IF f = "tierNotFound" THEN Return(f, "ResourceNotReady", FALSE, TRUE)
    ELSE IF f = "tierGet" THEN Return(f, "ResourceNotReady", TRUE, FALSE)
    ELSE IF f = "licenseAPINotReady" THEN Return(f, "ResourceNotReady", FALSE, TRUE)
    ELSE IF f = "licenseNotFound" THEN Return(f, "ResourceNotFound", FALSE, TRUE)
    ELSE IF f = "licenseGet" THEN Return(f, "ResourceReadError", FALSE, TRUE)
    ELSE IF f = "installationNotFound" THEN Return(f, "ResourceNotFound", TRUE, FALSE)
    ELSE IF f = "installationGet" THEN Return(f, "ResourceReadError", TRUE, FALSE)
    ELSE IF f = "pullSecrets" THEN Return(f, "ResourceReadError", TRUE, FALSE)
    ELSE IF f = "managementClusterConnection" THEN Return(f, "ResourceNotFound", TRUE, FALSE)
    ELSE IF f = "managementCluster" THEN Return(f, "ResourceReadError", TRUE, FALSE)
    ELSE IF f = "certificateManager" THEN Return(f, "ResourceCreateError", TRUE, FALSE)
    ELSE IF f = "fluentdKeyPair" THEN Return(f, "ResourceCreateError", TRUE, FALSE)
    ELSE IF f = "prometheusCertGet" THEN Return(f, "ResourceReadError", TRUE, FALSE)
    ELSE IF f = "prometheusCertNil" THEN Return(f, "ResourceNotReady", FALSE, TRUE)
    ELSE IF mtNamespace # "" /\ ~multiTenantManagement
         THEN Return("multiTenantNamespaceSet", "ResourceValidationError", FALSE, FALSE)
    ELSE IF ~managedCluster /\ multiTenantManagement /\ mtNamespace = ""
         THEN Return("multiTenantNamespaceUnset", "ResourceValidationError", FALSE, FALSE)
    ELSE IF ~managedCluster /\ multiTenantManagement /\ f = "tenant"
         THEN Return(f, "ResourceNotReady", TRUE, FALSE)
    ELSE IF f = "linseedCertGet" THEN Return(f, "ResourceValidationError", TRUE, FALSE)
    ELSE IF f = "linseedCertNil" THEN Return(f, "ResourceNotReady", FALSE, FALSE)
    ELSE IF f = "trustedBundle" THEN Return(f, "ResourceCreateError", TRUE, FALSE)
    ELSE IF ExportLogsNotLicensed(in.exportLogs, instance)
         THEN Return("exportLogs", "ResourceValidationError", FALSE, FALSE)
    ELSE IF instance.stores /\ instance.S3 /\ f = "s3Get"
         THEN Return(f, "ResourceValidationError", TRUE, FALSE)
    ELSE IF instance.stores /\ instance.S3 /\ f = "s3Nil"
         THEN Return(f, "ResourceNotFound", FALSE, FALSE)
    ELSE IF instance.stores /\ instance.Splunk /\ f = "splunkGet"
         THEN Return(f, "ResourceValidationError", TRUE, FALSE)
    ELSE IF instance.stores /\ instance.Splunk /\ f = "splunkNil"
         THEN Return(f, "ResourceNotFound", FALSE, FALSE)
    ELSE IF instance.stores /\ instance.Syslog /\ instance.Encryption = "TLS" /\ f = "syslogCert"
         THEN Return(f, "ResourceReadError", TRUE, FALSE)
    ELSE IF IDSEventsOnManagedCluster(managedCluster, instance)
         THEN Return("idsEvents", "ResourceValidationError", FALSE, FALSE)
    ELSE IF f = "filters" THEN Return(f, "ResourceReadError", TRUE, FALSE)
    ELSE IF in.eks /\ f = "esClusterConfigNotFound"
         THEN Return(f, "ResourceNotReady", FALSE, FALSE)
    ELSE IF in.eks /\ f = "esClusterConfigGet" THEN Return(f, "ResourceReadError", TRUE, FALSE)
    ELSE IF in.eks /\ f = "eksConfig" THEN Return(f, "ResourceReadError", TRUE, FALSE)
    ELSE IF in.eks /\ f = "eksKeyPair" THEN Return(f, "ResourceCreateError", TRUE, FALSE)
    ELSE IF f = "packetCapture" THEN Return(f, "ResourceReadError", TRUE, FALSE)
    ELSE IF f = "nonClusterHost" THEN Return(f, "ResourceReadError", TRUE, FALSE)
    ELSE IF f = "nonClusterHostEndpoint" THEN Return(f, "ResourceReadError", TRUE, FALSE)
    ELSE IF f = "imageSet" THEN Return(f, "ResourceUpdateError", TRUE, FALSE)
    ELSE IF loop.failed
         THEN Applied(Return(f, "ResourceUpdateError", TRUE, FALSE), loop.applied)
    ELSE IF f = "hasWindowsNodes"
         THEN Applied(Return(f, "", TRUE, FALSE), loop.applied)
    ELSE IF in.windows /\ f = "windowsImageSet"
         THEN Applied(Return(f, "ResourceUpdateError", TRUE, FALSE), loop.applied)
    ELSE IF in.windows /\ f = "fluentd-windows"
         THEN Applied(Return(f, "ResourceUpdateError", TRUE, FALSE), loop.applied)
    ELSE Finish(IF in.windows THEN Append(loop.applied, "fluentd-windows") ELSE loop.applied,
                patched, "none", isAvailable, f = "readyUpdate"))

-----------------------------------------------------------------------------
(* The APIServer controller *)

\* apiserver.ResourceName: the name of the controller's TigeraStatus.
ASResourceName == "apiserver"

ASRequests == {ASResourceName, InstanceRequest}

\* The client calls of ReconcileAPIServer.Reconcile that can make it return, in
\* the order the code makes them.
ASFaults ==
    <<"getAPIServer", "validate", "tsGet", "conditionsUpdate", "installationNotFound",
      "installationGet", "certificateManager", "tlsKeyPair", "queryServerKeyPair",
      "pullSecrets", "trustedBundle", "applicationLayer", "managementCluster",
      "managementClusterConnection", "tunnelSecret", "tierGet", "prometheusCert",
      "authentication", "dexCertGet", "dexCertNil", "keyValidatorConfig",
      "k8sServiceEndpoint", "finalizer", "render", "imageSet",
      "policy", "apiserver", "certificates", "readyUpdate">>

\* utils.MaintainInstallationFinalizer for the APIServer finalizer and the
\* calico-apiserver Deployment: the finalizer is added while the API server
\* object is given, and removed once none is given and the Deployment's pods have
\* stopped running.  Its value: the finalizer is on the Installation afterwards.
MaintainInstallationFinalizer(has, apiserverGiven, running) ==
    IF apiserverGiven THEN TRUE
    ELSE IF running THEN has
    ELSE FALSE

\* No return yet: the handler goes on to its next step.
Continue == Return("", "", FALSE, FALSE)

\* The error handling as it would be without the IsNotFound test: any error of
\* utils.GetAPIServer is handled as the CR not being there.
ASGetInstanceAnyError(exists, f) ==
    IF ~exists \/ f = "getAPIServer"
    THEN [Return("crNotFound", "", f = "finalizer", FALSE) EXCEPT !.finalizerCall = "nil"]
    ELSE Continue

\* Lines 228-237: utils.GetAPIServer and its error handling.  Not found: the
\* finalizer is maintained with a nil object and its error returned; any other
\* error degrades and is returned.
ASGetInstance(exists, f) ==
    IF ~exists
    THEN [Return("crNotFound", "", f = "finalizer", FALSE) EXCEPT !.finalizerCall = "nil"]
    ELSE IF f = "getAPIServer" THEN Return(f, "ResourceReadError", TRUE, FALSE)
    ELSE Continue

\* The check as it would be with the ManagementCluster test inverted.
BothManagementInverted(managementClusterConnection, managementCluster) ==
    managementClusterConnection /\ ~managementCluster

\* Line 345: a ManagementClusterConnection and a ManagementCluster were both read.
BothManagement(managementClusterConnection, managementCluster) ==
    managementClusterConnection /\ managementCluster

\* The test as it would be if the Tier were read whether or not its watch is ready.
IncludeV3NetworkPolicyUnwatched(enterprise, tierWatchReady, tier) ==
    enterprise /\ tier = "ok"

\* Lines 321 and 377-386: includeV3NetworkPolicy, set only in the Enterprise
\* block, when the tier watch is ready and the Get of the allow-tigera Tier
\* returns no error.
IncludeV3NetworkPolicy(enterprise, tierWatchReady, tier) ==
    enterprise /\ tierWatchReady /\ tier = "ok"

\* The step as it would be with the error of maintainFinalizer dropped.
ASMaintainFinalizerIgnoringError(f) == Continue

\* Lines 437-441: maintainFinalizer(instance); its error degrades and is returned.
ASMaintainFinalizer(f) ==
    IF f = "finalizer"
    THEN [Return(f, "ResourceReadError", TRUE, FALSE) EXCEPT !.finalizerCall = "instance"]
    ELSE Continue

\* ReconcileAPIServer.Reconcile, for request req, with the CR present or not,
\* IsAvailable() answering isAvailable, and the reads of in.
ASReconcile(req, exists, isAvailable, in) ==
    LET f == in.fault
        enterprise == in.variant = "TigeraSecureEnterprise"
        includeV3NetworkPolicy == IncludeV3NetworkPolicy(enterprise, in.tierWatchReady, in.tier)
        authReady == in.authentication \in {"ready", "readyDex"}
        components == (IF includeV3NetworkPolicy THEN <<"policy">> ELSE << >>)
                      \o <<"apiserver", "certificates">>
        loop == ApplyLoop(components, f)
        Maintained(o) == [o EXCEPT !.finalizerCall = "instance"]
        Applied(o, a) == [o EXCEPT !.finalizerCall = "instance", !.applied = a]
    IN
    IF ASGetInstance(exists, f) # Continue THEN ASGetInstance(exists, f)
    ELSE IF f = "validate" THEN Return(f, "ResourceValidationError", TRUE, FALSE)
    ELSE IF req = ASResourceName /\ f = "tsGet" THEN Return(f, "", TRUE, FALSE)
    ELSE IF req = ASResourceName /\ f = "conditionsUpdate" THEN Return(f, "", TRUE, FALSE)
    ELSE IF f = "installationNotFound" THEN Return(f, "ResourceNotFound", TRUE, FALSE)
    ELSE IF f = "installationGet" THEN Return(f, "ResourceReadError", TRUE, FALSE)
    ELSE IF in.variant = "" THEN Return("variantUnset", "ResourceNotReady", FALSE, FALSE)
    ELSE IF f = "certificateManager" THEN Return(f, "ResourceCreateError", TRUE, FALSE)
    ELSE IF f = "tlsKeyPair" THEN Return(f, "ResourceCreateError", TRUE, FALSE)
    ELSE IF in.certificateManagement /\ f = "queryServerKeyPair"
         THEN Return(f, "ResourceCreateError", TRUE, FALSE)
    ELSE IF f = "pullSecrets" THEN Return(f, "ResourceReadError", TRUE, FALSE)
    ELSE IF enterprise /\ f = "trustedBundle" THEN Return(f, "ResourceCreateError", TRUE, FALSE)
    ELSE IF enterprise /\ f = "applicationLayer" THEN Return(f, "ResourceReadError", TRUE, FALSE)
    ELSE IF enterprise /\ f = "managementCluster" THEN Return(f, "ResourceReadError", TRUE, FALSE)
    ELSE IF enterprise /\ f = "managementClusterConnection"
         THEN Return(f, "ResourceReadError", TRUE, FALSE)
    ELSE IF enterprise /\ BothManagement(in.managementClusterConnection, in.managementCluster)
         THEN Return("bothManagement", "ResourceValidationError", TRUE, FALSE)
    ELSE IF /\ enterprise /\ in.managementCluster /\ in.managementClusterTLS
            /\ ~in.multiTenant /\ f = "tunnelSecret"
         THEN Return(f, "ResourceReadError", TRUE, FALSE)
    ELSE IF enterprise /\ in.tierWatchReady /\ f = "tierGet"
         THEN Return(f, "ResourceReadError", TRUE, FALSE)
    ELSE IF enterprise /\ f = "prometheusCert" THEN Return(f, "ResourceReadError", TRUE, FALSE)
    ELSE IF enterprise /\ f = "authentication" THEN Return(f, "ResourceReadError", TRUE, FALSE)
    ELSE IF enterprise /\ in.authentication = "readyDex" /\ f = "dexCertGet"
         THEN Return(f, "CertificateError", TRUE, FALSE)
    ELSE IF enterprise /\ in.authentication = "readyDex" /\ f = "dexCertNil"
         THEN Return(f, "ResourceNotReady", FALSE, FALSE)
    ELSE IF enterprise /\ authReady /\ f = "keyValidatorConfig"
         THEN Return(f, "ResourceReadError", TRUE, FALSE)
    ELSE IF f = "k8sServiceEndpoint" THEN Return(f, "ResourceReadError", TRUE, FALSE)
    ELSE IF ASMaintainFinalizer(f) # Continue THEN ASMaintainFinalizer(f)
    ELSE IF f = "render" THEN Maintained(Return(f, "ResourceRenderingError", TRUE, FALSE))
    ELSE IF f = "imageSet" THEN Maintained(Return(f, "ResourceUpdateError", TRUE, FALSE))
    ELSE IF loop.failed
         THEN Applied(Return(f, "ResourceUpdateError", TRUE, FALSE), loop.applied)
    ELSE Finish(loop.applied, FALSE, "instance", isAvailable, f = "readyUpdate")

-----------------------------------------------------------------------------
(* The reads of a reconcile *)

\* The LogCollector instances read: complete, defaults missing, stores of each
\* kind, a Syslog store with IDSEvents, a tenant namespace, and all at once.
LCPlain == Instance("Enabled", FALSE, FALSE, FALSE, FALSE, << >>, "", "")
LCRich == Instance("nil", TRUE, TRUE, TRUE, TRUE, <<"Audit">>, "TLS", "tenant-a")

LCInstances ==
    {LCPlain, LCRich,
     Instance("nil", FALSE, FALSE, FALSE, FALSE, << >>, "", ""),
     Instance("Enabled", TRUE, FALSE, FALSE, FALSE, << >>, "", ""),
     Instance("Disabled", TRUE, TRUE, TRUE, FALSE, << >>, "", ""),
     Instance("Enabled", TRUE, FALSE, FALSE, TRUE, << >>, "", ""),
     Instance("Enabled", TRUE, FALSE, FALSE, TRUE, <<"Audit", "IDSEvents">>, "TLS", ""),
     Instance("Enabled", FALSE, FALSE, FALSE, FALSE, << >>, "", "tenant-a")}

\* What a LogCollector reconcile reads:
\*   instance                     the LogCollector CR's spec
\*   managementClusterConnection  a ManagementClusterConnection CR exists
\*   managementCluster            a ManagementCluster CR exists
\*   multiTenant                  the reconciler's multiTenant option
\*   exportLogs                   the license activates common.ExportLogsFeature
\*   eks                          the provider is EKS and the instance sets
\*                                AdditionalSources.EksCloudwatchLog
\*   windows                      common.HasWindowsNodes
\*   fault                        the call that fails, "none" when none does
LCReads(instances, faults) ==
    [instance : instances, managementClusterConnection : BOOLEAN,
     managementCluster : BOOLEAN, multiTenant : BOOLEAN, exportLogs : BOOLEAN,
     eks : BOOLEAN, windows : BOOLEAN, fault : faults]

\* The LogCollector reconcile makes the call in.fault names, if it gets that far.
LCCallMade(req, in) ==
    LET f == in.fault
        instance == fillDefaults(in.instance)
    IN  /\ f \in {"tsGet", "conditionsUpdate"} => req = LCResourceName
        /\ f = "patch" => Len(instance.modifiedFields) > 0
        /\ f = "tenant" => /\ ~in.managementClusterConnection
                           /\ in.multiTenant /\ in.managementCluster
        /\ f \in {"s3Get", "s3Nil"} => instance.instance.S3
        /\ f \in {"splunkGet", "splunkNil"} => instance.instance.Splunk
        /\ f = "syslogCert" => instance.instance.Syslog /\ instance.instance.Encryption = "TLS"
        /\ f \in {"esClusterConfigNotFound", "esClusterConfigGet", "eksConfig", "eksKeyPair"}
              => in.eks
        /\ f \in {"windowsImageSet", "fluentd-windows"} => in.windows

\* A cluster with nothing optional, and one with everything the handler can read.
LCPlainReads ==
    [instance |-> LCPlain, managementClusterConnection |-> FALSE,
     managementCluster |-> FALSE, multiTenant |-> FALSE, exportLogs |-> TRUE,
     eks |-> FALSE, windows |-> FALSE, fault |-> "none"]

LCRichReads ==
    [instance |-> LCRich, managementClusterConnection |-> FALSE,
     managementCluster |-> TRUE, multiTenant |-> TRUE, exportLogs |-> TRUE,
     eks |-> TRUE, windows |-> TRUE, fault |-> "none"]

\* Every configuration with no failing call, and every failing call under those
\* two: the handler returns at a failing call whatever else it has read.
LCAllReads ==
    LCReads(LCInstances, {"none"})
    \cup {[c EXCEPT !.fault = f] : c \in {LCPlainReads, LCRichReads}, f \in Range(LCFaults)}

LCInputs(req) == {in \in LCAllReads : in.fault = "none" \/ LCCallMade(req, in)}

\* What an APIServer reconcile reads:
\*   variant                      Installation.Spec.Variant ("" while unset)
\*   certificateManagement        Installation.Spec.CertificateManagement is set
\*   managementCluster, managementClusterTLS
\*                                a ManagementCluster CR exists; its Spec.TLS is set
\*   managementClusterConnection  a ManagementClusterConnection CR exists
\*   multiTenant                  the reconciler's multiTenant option
\*   tierWatchReady               r.tierWatchReady.IsReady()
\*   tier                         the Get of the allow-tigera Tier: "ok", "notfound"
\*                                or "nomatch" (any other error is the fault tierGet)
\*   authentication               the Authentication CR: "absent", "notReady",
\*                                "ready", or "readyDex" (ready and of type Dex)
\*   fault                        the call that fails, "none" when none does
ASReads(faults) ==
    [variant : {"", "Calico", "TigeraSecureEnterprise"}, certificateManagement : BOOLEAN,
     managementCluster : BOOLEAN, managementClusterTLS : BOOLEAN,
     managementClusterConnection : BOOLEAN, multiTenant : BOOLEAN,
     tierWatchReady : BOOLEAN, tier : {"ok", "notfound", "nomatch"},
     authentication : {"absent", "notReady", "ready", "readyDex"}, fault : faults]

\* Reads the handler does not make take one value: the Enterprise-only reads in
\* another variant, Spec.TLS of no ManagementCluster, the multiTenant option where
\* no tunnel secret is at stake, the Tier while its watch is not ready.
ASReadsMade(in) ==
    /\ in.variant # "TigeraSecureEnterprise" =>
          /\ ~in.managementCluster /\ ~in.managementClusterConnection
          /\ ~in.tierWatchReady /\ in.authentication = "absent"
    /\ in.variant = "" => ~in.certificateManagement
    /\ ~in.managementCluster => ~in.managementClusterTLS
    /\ ~in.managementClusterTLS => ~in.multiTenant
    /\ ~in.tierWatchReady => in.tier = "ok"

\* The APIServer reconcile makes the call in.fault names, if it gets that far.
ASCallMade(req, in) ==
    LET f == in.fault
        enterprise == in.variant = "TigeraSecureEnterprise"
    IN  /\ f \in {"tsGet", "conditionsUpdate"} => req = ASResourceName
        /\ f = "queryServerKeyPair" => in.certificateManagement
        /\ f \in {"trustedBundle", "applicationLayer", "managementCluster",
                  "managementClusterConnection", "prometheusCert", "authentication"}
              => enterprise
        /\ f = "tunnelSecret" => /\ enterprise /\ in.managementCluster
                                 /\ in.managementClusterTLS /\ ~in.multiTenant
        /\ f = "tierGet" => enterprise /\ in.tierWatchReady
        /\ f \in {"dexCertGet", "dexCertNil"} => enterprise /\ in.authentication = "readyDex"
        /\ f = "keyValidatorConfig" =>
              enterprise /\ in.authentication \in {"ready", "readyDex"}
        /\ f = "policy" => enterprise /\ in.tierWatchReady /\ in.tier = "ok"

\* A Calico cluster, and an Enterprise cluster with everything the handler can read.
ASCalicoReads ==
    [variant |-> "Calico", certificateManagement |-> FALSE, managementCluster |-> FALSE,
     managementClusterTLS |-> FALSE, managementClusterConnection |-> FALSE,
     multiTenant |-> FALSE, tierWatchReady |-> FALSE, tier |-> "ok",
     authentication |-> "absent", fault |-> "none"]

ASRichReads ==
    [variant |-> "TigeraSecureEnterprise", certificateManagement |-> TRUE,
     managementCluster |-> TRUE, managementClusterTLS |-> TRUE,
     managementClusterConnection |-> FALSE, multiTenant |-> FALSE,
     tierWatchReady |-> TRUE, tier |-> "ok", authentication |-> "readyDex",
     fault |-> "none"]

\* Every configuration with no failing call, and every failing call under those
\* two: the handler returns at a failing call whatever else it has read.
ASAllReads ==
    {in \in ASReads({"none"}) : ASReadsMade(in)}
    \cup {[c EXCEPT !.fault = f] : c \in {ASCalicoReads, ASRichReads}, f \in Range(ASFaults)}

ASInputs(req) == {in \in ASAllReads : in.fault = "none" \/ ASCallMade(req, in)}

-----------------------------------------------------------------------------
(* The controllers *)

Controllers == {"logcollector", "apiserver"}

\* add as it would be with the periodic reconcile in both controllers.
HasPeriodicReconcileEverywhere(c) == TRUE

\* add: the apiserver controller adds a periodic reconcile to its watches, the
\* logcollector controller does not.
HasPeriodicReconcile(c) == c = "apiserver"

\* The names of the requests a controller's sources enqueue.  A request named
\* otherwise is handled as InstanceRequest is.
Requests(c) ==
    IF c = "logcollector" THEN LCRequests
    ELSE ASRequests \cup (IF HasPeriodicReconcile(c) THEN {PeriodicRequest} ELSE {})

\* The components a controller renders, and can apply.
Components(c) ==
    IF c = "logcollector" THEN Range(LCComponents) \cup {"fluentd-windows"}
    ELSE {"policy", "apiserver", "certificates"}

Inputs(c, req) == IF c = "logcollector" THEN LCInputs(req) ELSE ASInputs(req)

\* Every request name of the model.
RequestNames == LCRequests \cup ASRequests \cup {PeriodicRequest}

Reconcile(c, req, exists, isAvailable, in) ==
    IF c = "logcollector" THEN LCReconcile(req, exists, isAvailable, in)
    ELSE ASReconcile(req, exists, isAvailable, in)

\* The controller's work queue (controller-runtime): the request is processed
\* again if the returned error is non-nil or the Result asks for a requeue,
\* otherwise it is removed from the queue.
Requeued(out) == out.err \/ out.requeueAfter

\* The component handler as it would be without the annotation.
CreateOrUpdateOrDeleteAlways(liveState, ignored) == "desired"

\* ComponentHandler.CreateOrUpdateOrDelete on one object of a component: the
\* object is created or updated to the rendered state, unless it carries the
\* annotation unsupported.operator.tigera.io/ignore: "true".
CreateOrUpdateOrDelete(liveState, ignored) ==
    IF ignored THEN liveState ELSE "desired"

NoRun(c) ==
    [ran |-> FALSE, req |-> InstanceRequest,
     in |-> IF c = "logcollector" THEN LCPlainReads ELSE ASCalicoReads,
     out |-> Continue]

\* The reads of the long-running specifications: the cluster with everything,
\* with each failing call and with none, and clusters whose reconcile stops at a
\* validation: an unlicensed store, no variant yet, both management CRs.
LCUnlicensedReads == [LCRichReads EXCEPT !.exportLogs = FALSE]
ASVariantUnsetReads == [ASCalicoReads EXCEPT !.variant = ""]
ASBothReads == [ASRichReads EXCEPT !.managementClusterConnection = TRUE]

LongReads ==
    {[LCRichReads EXCEPT !.fault = f] : f \in Range(LCFaults) \cup {"none"}}
    \cup {[ASRichReads EXCEPT !.fault = f] : f \in Range(ASFaults) \cup {"none"}}
    \cup {LCUnlicensedReads, ASVariantUnsetReads, ASBothReads}

\* What a Reconcile call for a request can read, in any cluster and in the
\* clusters of the long-running specifications.
AllInputs == [c \in Controllers |-> [req \in RequestNames |-> Inputs(c, req)]]
LongInputs == [c \in Controllers |-> [req \in RequestNames |-> Inputs(c, req) \cap LongReads]]

\* One Reconcile call, from the work queue to its return, with the reads drawn
\* from inputs.
ReconcileFrom(inputs) ==
    \E req \in queue : \E in \in inputs[ctl][req] :
        LET out == Reconcile(ctl, req, crExists, available, in)
            maintained == out.finalizerCall # "none" /\ in.fault # "finalizer"
        IN  /\ run' = [ran |-> TRUE, req |-> req, in |-> in, out |-> out]
            /\ queue' = IF Requeued(out) THEN queue ELSE queue \ {req}
            /\ crState' = IF out.ready THEN "Ready" ELSE crState
            /\ finalizer' = IF maintained
                            THEN MaintainInstallationFinalizer(
                                    finalizer, out.finalizerCall = "instance", deployRunning)
                            ELSE finalizer
            /\ live' = IF tracked \in Range(out.applied)
                       THEN CreateOrUpdateOrDelete(live, ignore) ELSE live
            /\ UNCHANGED <<ctl, crExists, available, deployRunning, tracked, ignore>>
            /\ UNCHANGED <<fdIn, fdOut, ccIn, ccOut,
                   apIn, apOut, tyIn, tyOut>>

\* A Reconcile call of the running controller.
ReconcileStep == ReconcileFrom(LongInputs)

\* A watched object changed: its event handler enqueues a request.
WatchEvent ==
    /\ \E req \in Requests(ctl) \ {PeriodicRequest} : queue' = queue \cup {req}
    /\ UNCHANGED <<ctl, crExists, crState, available, run, finalizer, deployRunning,
                   tracked, live, ignore, fdIn, fdOut, ccIn, ccOut,
                   apIn, apOut, tyIn, tyOut>>

\* The periodic reconcile's ticker fires.
PeriodicReconcile ==
    /\ HasPeriodicReconcile(ctl)
    /\ queue' = queue \cup {PeriodicRequest}
    /\ UNCHANGED <<ctl, crExists, crState, available, run, finalizer, deployRunning,
                   tracked, live, ignore, fdIn, fdOut, ccIn, ccOut,
                   apIn, apOut, tyIn, tyOut>>

\* A user creates or deletes the controller's CR.
CRChange ==
    /\ crExists' = ~crExists
    /\ crState' = ""
    /\ UNCHANGED <<ctl, queue, available, run, finalizer, deployRunning,
                   tracked, live, ignore, fdIn, fdOut, ccIn, ccOut,
                   apIn, apOut, tyIn, tyOut>>

\* The status manager's view of the controller's workloads changes.
AvailabilityChange ==
    /\ available' = ~available
    /\ UNCHANGED <<ctl, queue, crExists, crState, run, finalizer, deployRunning,
                   tracked, live, ignore, fdIn, fdOut, ccIn, ccOut,
                   apIn, apOut, tyIn, tyOut>>

\* The pods of the calico-apiserver Deployment start or stop running.
PodsChange ==
    /\ ctl = "apiserver"
    /\ deployRunning' = ~deployRunning
    /\ UNCHANGED <<ctl, queue, crExists, crState, available, run, finalizer,
                   tracked, live, ignore, fdIn, fdOut, ccIn, ccOut,
                   apIn, apOut, tyIn, tyOut>>

\* The pure functions are not called.
PureIdleReads ==
    [variant |-> "Calico",
     deploy |-> [n \in {"calico-system", "tigera-system", "calico-apiserver"} |->
                    [get |-> "notfound", AvailableReplicas |-> 0]],
     apiServerReady |-> FALSE,
     ts |-> [get |-> "notfound", Available |-> FALSE]]

\* The render functions are not called.
RenderIdle ==
    /\ apIn = NoAPIServerConfiguration /\ apOut = NoDeployment
    /\ tyIn = NoTyphaConfiguration /\ tyOut = NoObjects

PureIdle ==
    /\ fdIn = NoInstance /\ fdOut = NoFill
    /\ ccIn = PureIdleReads /\ ccOut = NoCleanup
    /\ RenderIdle

\* No controller runs.
ControllerIdle ==
    /\ ctl = "logcollector" /\ queue = {} /\ crExists = FALSE /\ crState = ""
    /\ available = FALSE /\ run = NoRun("logcollector") /\ finalizer = FALSE
    /\ deployRunning = FALSE /\ tracked = "none" /\ live = "absent" /\ ignore = FALSE

\* The controller starts: nothing reconciled yet, the events of the watched
\* objects pending or not, the cluster in any state, no resource followed.
Init ==
    /\ ctl \in Controllers
    /\ queue \in SUBSET Requests(ctl)
    /\ crExists \in BOOLEAN
    /\ crState = ""
    /\ available \in BOOLEAN
    /\ run = NoRun(ctl)
    /\ finalizer = FALSE
    /\ deployRunning = FALSE
    /\ tracked = "none" /\ live = "absent" /\ ignore = FALSE
    /\ PureIdle

Next ==
    \/ ReconcileStep
    \/ WatchEvent
    \/ PeriodicReconcile
    \/ CRChange
    \/ AvailabilityChange
    \/ PodsChange

\* The running controller and its cluster.
Spec == Init /\ [][Next]_vars

-----------------------------------------------------------------------------
(* One Reconcile call, in any cluster *)

CallInit ==
    /\ ctl \in Controllers
    /\ queue \in SUBSET Requests(ctl)
    /\ crExists \in BOOLEAN
    /\ crState \in {"", "Ready"}
    /\ available \in BOOLEAN
    /\ run = NoRun(ctl)
    /\ finalizer \in (IF ctl = "apiserver" THEN BOOLEAN ELSE {FALSE})
    /\ deployRunning \in (IF ctl = "apiserver" THEN BOOLEAN ELSE {FALSE})
    /\ tracked = "none" /\ live = "absent" /\ ignore = FALSE
    /\ PureIdle

\* The Reconcile call, with any reads.
Call == ~run.ran /\ ReconcileFrom(AllInputs)

CallNext == Call
CallSpec == CallInit /\ [][CallNext]_vars

-----------------------------------------------------------------------------
(* The LogCollector controller alone, its requests processed fairly *)

LCInit == Init /\ ctl = "logcollector"

\* The reads of this specification: the cluster with everything, with no failing
\* call and with one failing call for each way the handler returns at one (an
\* error, a requeue, neither; before, in and after the apply loop), and the
\* cluster with the unlicensed store.
LCFairFaults ==
    {"none", "apiServerNotReady", "tierWatchNotReady", "installationGet",
     "prometheusCertNil", "fluentd", "hasWindowsNodes", "readyUpdate"}

LCFairInputs ==
    [c \in Controllers |-> [req \in RequestNames |->
        {in \in LongInputs[c][req] : in.fault \in LCFairFaults}]]

LCFairReconcile == ReconcileFrom(LCFairInputs)

LCNext ==
    \/ LCFairReconcile
    \/ WatchEvent
    \/ CRChange
    \/ AvailabilityChange

\* The controller's workers take a pending request off the queue sooner or later.
LCFairSpec == LCInit /\ [][LCNext]_vars /\ WF_vars(LCFairReconcile)

-----------------------------------------------------------------------------
(* A managed resource and its user *)

\* A user changes the resource directly.
UserEdit ==
    /\ live # "absent"
    /\ live' = "drifted"
    /\ UNCHANGED <<ctl, queue, crExists, crState, available, run, finalizer, deployRunning,
                   tracked, ignore, fdIn, fdOut, ccIn, ccOut,
                   apIn, apOut, tyIn, tyOut>>

\* A user adds the ignore annotation to the resource.
UserAnnotate ==
    /\ live # "absent" /\ ~ignore
    /\ ignore' = TRUE
    /\ UNCHANGED <<ctl, queue, crExists, crState, available, run, finalizer, deployRunning,
                   tracked, live, fdIn, fdOut, ccIn, ccOut,
                   apIn, apOut, tyIn, tyOut>>

\* A user removes the ignore annotation.
UserUnannotate ==
    /\ ignore
    /\ ignore' = FALSE
    /\ UNCHANGED <<ctl, queue, crExists, crState, available, run, finalizer, deployRunning,
                   tracked, live, fdIn, fdOut, ccIn, ccOut,
                   apIn, apOut, tyIn, tyOut>>

\* A user deletes the resource, its annotations with it.
UserDelete ==
    /\ live # "absent"
    /\ live' = "absent"
    /\ ignore' = FALSE
    /\ UNCHANGED <<ctl, queue, crExists, crState, available, run, finalizer, deployRunning,
                   tracked, fdIn, fdOut, ccIn, ccOut,
                   apIn, apOut, tyIn, tyOut>>

\* The CR exists, one resource of one component is followed.
ManagedInit ==
    /\ ctl \in Controllers
    /\ queue \in SUBSET Requests(ctl)
    /\ crExists = TRUE
    /\ crState = ""
    /\ available \in BOOLEAN
    /\ run = NoRun(ctl)
    /\ finalizer = FALSE
    /\ deployRunning = FALSE
    /\ tracked \in Components(ctl)
    /\ live \in {"absent", "desired", "drifted"}
    /\ ignore = FALSE
    /\ PureIdle

\* The reads of a reconcile that goes as far as applying its components: no
\* failing call, or one from the image set on.
ApplyFaults(c) ==
    LET faults == IF c = "logcollector" THEN LCFaults ELSE ASFaults
    IN  {"none"} \cup {faults[i] : i \in Index(faults, "imageSet")..Len(faults)}

ManagedInputs ==
    [c \in Controllers |-> [req \in RequestNames |->
        {in \in LongInputs[c][req] : in.fault \in ApplyFaults(c)}]]

\* A Reconcile call of the running controller that gets to its components, or
\* returns where the license or the Installation stops it.
ManagedReconcile == ReconcileFrom(ManagedInputs)

ManagedNext ==
    \/ ManagedReconcile
    \/ WatchEvent
    \/ PeriodicReconcile
    \/ UserEdit
    \/ UserAnnotate
    \/ UserUnannotate
    \/ UserDelete

ManagedSpec == ManagedInit /\ [][ManagedNext]_vars

\* A step of the cluster or of a user: every other step is a Reconcile call.
EnvStep ==
    \/ WatchEvent
    \/ PeriodicReconcile
    \/ CRChange
    \/ AvailabilityChange
    \/ PodsChange
    \/ UserEdit
    \/ UserAnnotate
    \/ UserUnannotate
    \/ UserDelete

-----------------------------------------------------------------------------
(* The pure functions *)

FillOnlyInit ==
    /\ FillInit /\ ControllerIdle /\ ccIn = PureIdleReads /\ ccOut = NoCleanup
    /\ RenderIdle
FillNext == Fill
FillSpec == FillOnlyInit /\ [][FillNext]_vars

CleanupOnlyInit ==
    /\ CleanupInit /\ ControllerIdle /\ fdIn = NoInstance /\ fdOut = NoFill
    /\ RenderIdle
CleanupNext == Cleanup
CleanupSpec == CleanupOnlyInit /\ [][CleanupNext]_vars

RenderInit ==
    /\ APIServerRenderInit /\ TyphaInit /\ ControllerIdle
    /\ fdIn = NoInstance /\ fdOut = NoFill
    /\ ccIn = PureIdleReads /\ ccOut = NoCleanup
RenderNext == RenderAPIServer \/ TyphaObjects
RenderSpec == RenderInit /\ [][RenderNext]_vars

-----------------------------------------------------------------------------
(* What the reconcilers check, stated on the reads *)

\* The components the handler renders for the reads in, in the order it applies
\* them.
Rendered(c, in) ==
    IF c = "logcollector"
    THEN LCComponents \o (IF in.windows THEN <<"fluentd-windows">> ELSE << >>)
    ELSE (IF /\ in.variant = "TigeraSecureEnterprise" /\ in.tierWatchReady
             /\ in.tier = "ok"
          THEN <<"policy">> ELSE << >>)
         \o <<"apiserver", "certificates">>

\* The LogCollector, after defaulting, passes the reconciler's validations: the
\* tenant namespace fits the cluster, its stores are licensed, and a managed
\* cluster forwards no IDSEvents to Syslog.
LCValid(in) ==
    LET instance == fillDefaults(in.instance).instance
        multiTenantManagement == in.multiTenant /\ in.managementCluster
        namespace == instance.MultiTenantManagementClusterNamespace
    IN  /\ namespace # "" => multiTenantManagement
        /\ (multiTenantManagement /\ ~in.managementClusterConnection) => namespace # ""
        /\ instance.stores => in.exportLogs
        /\ (instance.stores /\ instance.Syslog /\ in.managementClusterConnection)
              => "IDSEvents" \notin Range(instance.LogTypes)

\* The Installation has a variant, and an Enterprise cluster is not both a
\* management and a managed cluster.
ASValid(in) ==
    /\ in.variant # ""
    /\ in.variant = "TigeraSecureEnterprise"
          => ~(in.managementCluster /\ in.managementClusterConnection)

\* Every check of the reconcile passes: the CR is there and valid and no call
\* fails up to ClearDegraded (the status update is the one call after it).
Satisfied(c, exists, in) ==
    /\ exists
    /\ in.fault \in {"none", "readyUpdate"}
    /\ IF c = "logcollector" THEN LCValid(in) ELSE ASValid(in)

-----------------------------------------------------------------------------
(* Properties *)

C2_Finalizer ==
    /\ [][ /\ (~finalizer /\ finalizer') =>
                /\ crExists /\ run'.ran /\ run'.out.finalizerCall = "instance"
                /\ ASValid(run'.in)
                /\ run'.in.fault # "finalizer"
                /\ \/ run'.in.fault = "none"
                   \/ Index(ASFaults, run'.in.fault) > Index(ASFaults, "finalizer")
           /\ (finalizer /\ ~finalizer') =>
                /\ ~crExists /\ ~deployRunning
                /\ run'.ran /\ run'.out.finalizerCall = "nil" ]_vars
    /\ []( (/\ ctl = "apiserver" /\ run.ran /\ run.out.cleared
            /\ crExists /\ deployRunning) => finalizer )

\* The CR is gone and a reconcile has called maintainFinalizer with nil, yet
\* the finalizer, added before, is kept: the pods still run.
C2_Witness ==
    /\ ctl = "apiserver" /\ run.ran /\ run.out.stop = "crNotFound"
    /\ run.out.finalizerCall = "nil" /\ ~run.out.err
    /\ ~crExists /\ deployRunning /\ finalizer

\* C3.  While a managed resource carries the ignore annotation, no reconcile
\* changes it: any change is its user's.  Without the annotation (never set, or
\* removed) a reconcile that applies its component brings it to the rendered
\* state.
C3_Ignore ==
    [][ /\ (ignore /\ ignore') => (live' = live \/ UserEdit)
        /\ (~ignore /\ ~EnvStep /\ tracked \in Range(run'.out.applied))
              => live' = "desired" ]_vars

\* An annotated resource, changed by its user, has gone through a reconcile
\* that applied its component.
C3_Witness ==
    /\ ignore /\ live = "drifted"
    /\ run.ran /\ tracked \in Range(run.out.applied)

\* C4.  A reconcile that gets through its apply loop with no error leaves every
\* rendered resource without the ignore annotation in its rendered state: a
\* user's change made before it is gone.
C4_Reverts ==
    [][ ( /\ ~EnvStep /\ ~ignore
          /\ run'.out.cleared
          /\ tracked \in Range(Rendered(ctl, run'.in)) )
        => live' = "desired" ]_vars

\* A resource is in its rendered state after a reconcile that applied it and
\* then failed to write the status.
C4_Witness ==
    /\ ~ignore /\ live = "desired"
    /\ run.ran /\ run.out.cleared /\ run.out.stop = "readyUpdate"
    /\ tracked = "fluentd-windows"

C6_ClearDegraded ==
    run.ran =>
        /\ run.out.cleared =>
              /\ Satisfied(ctl, crExists, run.in)
              /\ run.out.applied = Rendered(ctl, run.in)
              /\ run.out.degraded = ""
        /\ run.out.stop \notin {"notAvailable", "readyUpdate", "done"} => ~run.out.cleared

\* A LogCollector reconcile with Windows nodes cleared the degraded status.
C6_Witness ==
    /\ ctl = "logcollector" /\ run.ran /\ run.out.cleared
    /\ run.in.windows
    /\ run.out.applied = <<"setup", "fluentd", "certificates", "fluentd-windows">>

\* C7.  A reconcile writes Status.State = Ready only if it reached ClearDegraded
\* and IsAvailable() was true; if it reached ClearDegraded and IsAvailable() was
\* false it returns RequeueAfter with no error and writes no Ready.
C7_Ready ==
    run.ran =>
        /\ run.out.ready => (run.out.cleared /\ available /\ crState = "Ready")
        /\ (run.out.cleared /\ ~available) =>
              /\ run.out.requeueAfter /\ ~run.out.err /\ ~run.out.ready
              /\ run.out.stop = "notAvailable"

\* A reconcile reached ClearDegraded and found the status not available.
C7_Witness ==
    /\ ctl = "apiserver" /\ run.ran /\ run.out.cleared /\ ~available
    /\ run.out.requeueAfter /\ crState = ""

C9_FillDefaults ==
    fdOut.done =>
        LET i == fdIn
            o == fdOut.instance
            hasSyslog == i.stores /\ i.Syslog
            cpp == i.CollectProcessPath = "nil"
            types == hasSyslog /\ i.LogTypes = << >>
            enc == hasSyslog /\ i.Encryption = ""
        IN  /\ o.CollectProcessPath = IF cpp THEN "Enabled" ELSE i.CollectProcessPath
            /\ o.LogTypes = IF types THEN <<"Audit", "DNS", "Flows">> ELSE i.LogTypes
            /\ o.Encryption = IF enc THEN "None" ELSE i.Encryption
            /\ o = [i EXCEPT !.CollectProcessPath = o.CollectProcessPath,
                             !.LogTypes = o.LogTypes, !.Encryption = o.Encryption]
            /\ fdOut.modifiedFields =
                  (IF cpp THEN <<"CollectProcessPath">> ELSE << >>)
                  \o (IF types THEN <<"AdditionalStores.Syslog.LogTypes">> ELSE << >>)
                  \o (IF enc THEN <<"AdditionalStores.Syslog.Encryption">> ELSE << >>)

\* It defaulted the LogTypes and kept a set Encryption and CollectProcessPath.
C9_Witness ==
    /\ fdOut.done /\ fdIn.Syslog /\ fdIn.LogTypes = << >> /\ fdIn.Encryption = "TLS"
    /\ fdIn.CollectProcessPath = "Disabled"
    /\ fdOut.modifiedFields = <<"AdditionalStores.Syslog.LogTypes">>

\* C10.  A LogCollector reconcile whose license does not activate export-logs
\* and whose CR sets AdditionalStores applies no component, does not clear the
\* degraded status and writes no Ready; and unless a call before the license
\* check fails, it sets the status degraded with a validation error.
C10_ExportLogs ==
    ( /\ ctl = "logcollector" /\ run.ran /\ crExists
      /\ ~run.in.exportLogs /\ run.in.instance.stores )
    => /\ run.out.applied = << >>
       /\ ~run.out.cleared /\ ~run.out.ready
       /\ \/ run.out.degraded = "ResourceValidationError"
          \/ /\ run.in.fault # "none"
             /\ Index(LCFaults, run.in.fault) <= Index(LCFaults, "trustedBundle")
             /\ run.out.stop = run.in.fault

\* The reconcile returned at the license check, with a Syslog store only.
C10_Witness ==
    /\ ctl = "logcollector" /\ run.ran /\ run.out.stop = "exportLogs"
    /\ run.out.degraded = "ResourceValidationError"
    /\ ~run.in.instance.S3 /\ run.in.instance.Syslog

\* C11.  A LogCollector reconcile whose CR forwards IDSEvents to Syslog.  On a
\* managed cluster (a ManagementClusterConnection CR is read) it applies no
\* component and does not clear the degraded status, and unless a call before the
\* check fails it sets the status degraded with a validation error.  On any other
\* cluster it does not return at this check, and with the CR otherwise valid and
\* no failing call it goes on to apply every component.
C11_IDSEvents ==
    ( /\ ctl = "logcollector" /\ run.ran /\ crExists
      /\ run.in.instance.stores /\ run.in.instance.Syslog
      /\ "IDSEvents" \in Range(run.in.instance.LogTypes) )
    => IF run.in.managementClusterConnection
       THEN /\ run.out.applied = << >>
            /\ ~run.out.cleared /\ ~run.out.ready
            /\ \/ run.out.degraded = "ResourceValidationError"
               \/ /\ run.in.fault # "none"
                  /\ Index(LCFaults, run.in.fault) <= Index(LCFaults, "syslogCert")
                  /\ run.out.stop = run.in.fault
       ELSE /\ run.out.stop # "idsEvents"
            /\ (run.in.fault = "none" /\ LCValid(run.in)) =>
                  /\ run.out.cleared /\ run.out.degraded = ""
                  /\ run.out.applied = Rendered(ctl, run.in)

\* The reconcile of a managed cluster returned at the IDSEvents check.
C11_Witness ==
    /\ ctl = "logcollector" /\ run.ran /\ run.out.stop = "idsEvents"
    /\ run.in.managementClusterConnection /\ run.in.exportLogs
    /\ run.out.degraded = "ResourceValidationError" /\ run.out.applied = << >>

\* C12.  An APIServer reconcile of an Enterprise cluster that reads both a
\* ManagementCluster and a ManagementClusterConnection returns an error, makes no
\* maintainFinalizer call and leaves the finalizer as it was, applies no
\* component, clears nothing, and unless a call before the check fails it sets
\* the status degraded with a validation error.
C12_BothManagement ==
    [][ ( /\ ctl = "apiserver" /\ ~EnvStep /\ crExists
          /\ run'.in.variant = "TigeraSecureEnterprise"
          /\ run'.in.managementCluster /\ run'.in.managementClusterConnection )
        => /\ run'.out.err
           /\ run'.out.finalizerCall = "none" /\ finalizer' = finalizer
           /\ run'.out.applied = << >>
           /\ ~run'.out.cleared /\ ~run'.out.ready /\ crState' = crState
           /\ \/ /\ run'.out.degraded = "ResourceValidationError"
                 /\ run'.out.stop = "bothManagement"
              \/ /\ run'.in.fault # "none"
                 /\ Index(ASFaults, run'.in.fault)
                       <= Index(ASFaults, "managementClusterConnection")
                 /\ run'.out.stop = run'.in.fault ]_vars

\* The reconcile returned at the check, the finalizer set before it still there.
C12_Witness ==
    /\ ctl = "apiserver" /\ run.ran /\ run.out.stop = "bothManagement"
    /\ run.out.err /\ run.out.degraded = "ResourceValidationError"
    /\ finalizer /\ run.out.finalizerCall = "none"

C16_DeploymentLast ==
    tyOut.done =>
        \A i, j \in 1..Len(tyOut.objs) :
            (tyOut.objs[i].Kind = "Deployment" /\ tyOut.objs[j].Kind # "Deployment")
                => j < i

\* C15.  An APIServer reconcile applies, or tries to apply, the network-policy
\* component only if the variant is Enterprise, the tier watch is ready and the
\* Get of the allow-tigera Tier succeeded.  With the watch not ready, or the Tier
\* not found or its kind unknown, the reconcile does not stop at the Tier read,
\* and when nothing else stops it, it sets nothing degraded and applies the API
\* server and the certificate management component.  Any other error of the Tier
\* read sets ResourceReadError and returns the error with no component applied.
C15_NetworkPolicy ==
    (run.ran /\ ctl = "apiserver") =>
        LET in == run.in
            out == run.out
            enterprise == in.variant = "TigeraSecureEnterprise"
            tierRead == enterprise /\ in.tierWatchReady /\ in.fault # "tierGet"
        IN  /\ ("policy" \in Range(out.applied) \/ out.stop = "policy")
                  => tierRead /\ in.tier = "ok"
            /\ (~in.tierWatchReady \/ (tierRead /\ in.tier \in {"notfound", "nomatch"}))
                  => /\ out.stop # "tierGet"
                     /\ "policy" \notin Range(out.applied)
                     /\ (out.stop # "crNotFound" /\ Satisfied("apiserver", TRUE, in))
                           => /\ out.degraded = "" /\ out.cleared
                              /\ out.applied = <<"apiserver", "certificates">>
            /\ (in.fault = "tierGet" /\ out.stop # "crNotFound")
                  => /\ enterprise /\ in.tierWatchReady
                     /\ out.stop = "tierGet" /\ out.degraded = "ResourceReadError"
                     /\ out.err /\ out.applied = << >> /\ ~out.cleared

\* An Enterprise reconcile whose Tier read returned NotFound: nothing degraded,
\* the two other components applied.
C15_Witness ==
    /\ run.ran /\ ctl = "apiserver" /\ run.in.variant = "TigeraSecureEnterprise"
    /\ run.in.tierWatchReady /\ run.in.tier = "notfound" /\ run.in.fault = "none"
    /\ run.out.degraded = "" /\ run.out.cleared
    /\ run.out.applied = <<"apiserver", "certificates">>

\* C17.  In an APIServer reconcile that finds its CR: a component is applied, or
\* its apply tried, only after maintainFinalizer(instance) returned no error, so
\* the finalizer is on the Installation by then; when maintainFinalizer fails the
\* reconcile sets the status degraded, returns the error and applies no
\* component; and when a step before it stops the reconcile, maintainFinalizer is
\* not called and the finalizer is as it was.
C17_FinalizerFirst ==
    [][ (ctl = "apiserver" /\ ~EnvStep /\ crExists) =>
          LET in == run'.in
              out == run'.out
              before == {ASFaults[i] : i \in 1..(Index(ASFaults, "finalizer") - 1)}
                        \cup {"variantUnset", "bothManagement"}
          IN  /\ (out.applied # << >> \/ out.stop \in {"policy", "apiserver", "certificates"})
                    => /\ out.finalizerCall = "instance" /\ in.fault # "finalizer"
                       /\ finalizer'
              /\ (in.fault = "finalizer" /\ ASValid(in))
                    => /\ out.stop = "finalizer" /\ out.finalizerCall = "instance"
                       /\ out.degraded = "ResourceReadError" /\ out.err
                       /\ out.applied = << >> /\ ~out.cleared /\ ~out.ready
                       /\ finalizer' = finalizer
              /\ out.stop \in before
                    => /\ out.finalizerCall = "none" /\ finalizer' = finalizer
                       /\ out.applied = << >> ]_vars

\* The apply of the first component failed: no component is applied and the
\* finalizer is already on the Installation.
C17_Witness ==
    /\ run.ran /\ ctl = "apiserver" /\ run.in.variant = "Calico"
    /\ run.out.stop = "apiserver" /\ run.out.applied = << >>
    /\ run.out.finalizerCall = "instance" /\ finalizer

\* C18.  A LogCollector reconcile applies its components in the order setup,
\* fluentd, certificate management, then the Windows fluentd; a failing
\* CreateOrUpdateOrDelete sets ResourceUpdateError, returns the error and leaves
\* the components up to the failing one applied and none after it; the Windows
\* fluentd is applied only on a cluster with Windows nodes and only after the
\* three others, it is applied whenever such a reconcile reaches ClearDegraded,
\* and on a cluster without Windows nodes it is neither rendered nor applied.
C18_ApplyOrder ==
    (run.ran /\ ctl = "logcollector") =>
        LET in == run.in
            out == run.out
            order == <<"setup", "fluentd", "certificates", "fluentd-windows">>
            linux == SubSeq(order, 1, 3)
            reached == out.stop # "crNotFound" /\ LCValid(in)
        IN  /\ Len(out.applied) <= Len(order)
            /\ out.applied = SubSeq(order, 1, Len(out.applied))
            /\ \A k \in 1..3 :
                  (in.fault = order[k] /\ reached)
                      => /\ out.stop = order[k]
                         /\ out.degraded = "ResourceUpdateError" /\ out.err
                         /\ out.applied = SubSeq(order, 1, k - 1)
                         /\ ~out.cleared /\ ~out.ready
            /\ (in.fault = "fluentd-windows" /\ reached)
                  => /\ in.windows /\ out.stop = "fluentd-windows"
                     /\ out.degraded = "ResourceUpdateError" /\ out.err
                     /\ out.applied = linux /\ ~out.cleared
            /\ "fluentd-windows" \in Range(out.applied)
                  => in.windows /\ out.applied = order
            /\ out.cleared => out.applied = (IF in.windows THEN order ELSE linux)
            /\ (reached /\ in.fault \in {"none", "readyUpdate"}) => out.cleared
            /\ ~in.windows => out.stop \notin {"windowsImageSet", "fluentd-windows"}

\* The certificate management component failed on a cluster with Windows nodes:
\* setup and fluentd are applied, the Windows fluentd is not.
C18_Witness ==
    /\ run.ran /\ ctl = "logcollector" /\ run.in.windows
    /\ run.in.fault = "certificates" /\ run.out.stop = "certificates"
    /\ run.out.applied = <<"setup", "fluentd">>
    /\ run.out.degraded = "ResourceUpdateError" /\ run.out.err

=============================================================================
